---- MODULE Spec2Model ----
(***************************************************************************)
(* Two hash-linked ledgers of the repository:                              *)
(*   main.py     Block / SmartCityBlockchain  (pending buffer, no nonce)   *)
(*   prajwal.py  CryptoBlock / SecureChain    (proof-of-work)              *)
(* Each script builds one chain object; prog says which script runs.       *)
(*                                                                         *)
(* Python positions are 0-based, TLA+ sequences 1-based: the block at      *)
(* Python position i is element i + 1 of the sequence.                     *)
(*                                                                         *)
(* A digest (the 64 characters of sha256(...).hexdigest()) is a tuple:     *)
(* its first PrefixLen elements are the leading hexadecimal characters     *)
(* (0..15), given by a mixing function of the hashed content, and its last *)
(* element is the hashed text itself, which stands for the remaining       *)
(* characters: two different texts never have the same digest.             *)
(***************************************************************************)
EXTENDS Integers, Sequences, FiniteSets, TLC

\* ---------------------------------------------------------------- bounds
MaxChain == 3        \* most blocks a chain holds, genesis included
MaxPending == 2      \* most records in the pending buffer
MaxTime == 1         \* time() returns a value of 1..MaxTime, never less than before
MaxNonce == 4        \* most increments of the nonce in one mining loop
MaxTamper == 2       \* most direct field overwrites by outside code
PrefixLen == 4       \* leading characters of a digest modelled one by one

\* ------------------------------------------------------ program constants
DefaultComplexity == 3   \* SecureChain.mining_complexity as constructed
HexBase == 16            \* hexdigest() characters are 0..9a..f

\* ------------------------------------------- parameters of the digest model
\* The leading characters of a digest come from a mix of the hashed fields,
\* taken modulo MixModulus; a mix of m gives PrefixLen - m leading zeros.
\* One nonce increment moves the mix by NonceStride, so that a search meets
\* the difficulty at nonce 0, at a later nonce, with more zeros than asked
\* for, or at no nonce at all, depending on the other fields.
MixModulus == 12
NonceStride == 3

Times == 1..MaxTime
Senders == {"Resident_123"}
RecordTypes == {"waste_disposal"}
Unserializable == "set()"            \* a value json.dumps raises TypeError on
Details == {"weight_kg", Unserializable}
UserData == {"alpha", "beta", Unserializable}
Complexities == 0..DefaultComplexity
None == [none |-> TRUE]
NoBlock == [block_id |-> -1]

VARIABLES
    prog,               \* "city" (main.py) or "secure" (prajwal.py)
    now,                \* the last value time() returned
    chain,              \* SmartCityBlockchain.chain
    pending_data,       \* SmartCityBlockchain.pending_data
    blocks,             \* SecureChain.blocks
    mining_complexity,  \* SecureChain.mining_complexity
    new_crypto_block,   \* the candidate of a running append_new_block
    pc,                 \* where append_new_block stands: idle, mining, mined
                        \* (remining: inside a direct call of mine_block)
    target_block,       \* position in blocks of the argument of the last
                        \* direct call of mine_block, -1 if there was none
    op,                 \* the call that made the last step
    err,                \* the exception that call raised, or "none"
    out,                \* what that call returned (or printed)
    before_add,         \* history: the error of the mine_block call that came
                        \* right before the last add_data ("none" if none did)
    appended,           \* history: every block as it was when appended
    tampers             \* history: number of direct overwrites so far

vars == <<prog, now, chain, pending_data, blocks, mining_complexity,
          new_crypto_block, pc, target_block, op, err, out, before_add,
          appended, tampers>>

cityVars == <<chain, pending_data>>
secureVars == <<blocks, mining_complexity, new_crypto_block, pc>>

\* --------------------------------------------------------------- digests
Min(a, b) == IF a < b THEN a ELSE b

\* json.dumps raises TypeError on a value it cannot encode.
Serializable(v) == v # Unserializable

\* How many leading characters of a digest are "0".
LeadingZeros(digest) ==
    Cardinality({i \in 1..PrefixLen : \A j \in 1..i : digest[j] = 0})

\* The leading characters for a mix m: PrefixLen - m zeros, then f's.
HexPrefix(m) ==
    [i \in 1..PrefixLen |-> IF i <= PrefixLen - Min(m, PrefixLen) THEN 0 ELSE HexBase - 1]

\* hashlib.sha256(text).hexdigest(): the prefix of the mix, then the text.
sha256_hexdigest(text, mix) == Append(HexPrefix(mix % MixModulus), text)

\* The number a previous-digest field contributes to the mix.
DigestCode(digest) == IF Len(digest) = PrefixLen + 1 THEN 1 + LeadingZeros(digest) ELSE 0

DataCode(d) == CASE d = "alpha" -> 1 [] d = "beta" -> 2 [] OTHER -> 0

\* Block.calculate_hash: json.dumps with sort_keys=True lists the keys in
\* the order data, index, previous_hash, timestamp.
calculate_hash(b) ==
    sha256_hexdigest(
        << <<"data", b.data>>, <<"index", b.index>>,
           <<"previous_hash", b.previous_hash>>, <<"timestamp", b.timestamp>> >>,
        7 * b.index + 5 * b.timestamp + DigestCode(b.previous_hash)
          + (IF "transactions" \in DOMAIN b.data THEN Len(b.data.transactions) ELSE 0))

\* CryptoBlock.generate_hash: keys in the order data, id, nonce, prev_hash,
\* timestamp.
generate_hash(b) ==
    sha256_hexdigest(
        << <<"data", b.block_data>>, <<"id", b.block_id>>, <<"nonce", b.nonce>>,
           <<"prev_hash", b.prev_block_hash>>, <<"timestamp", b.created_time>> >>,
        7 * b.block_id + 4 * b.created_time + 5 * DataCode(b.block_data)
          + DigestCode(b.prev_block_hash) + NonceStride * b.nonce)

\* str.startswith
startswith(s, prefix) ==
    /\ Len(prefix) <= Len(s)
    /\ \A i \in 1..Len(prefix) : s[i] = prefix[i]

\* "0" * n
Zeros(n) == [i \in 1..n |-> 0]

\* ------------------------------------------------------------ main.py
\* Block.__init__
Block(index, timestamp, data, previous_hash) ==
    LET b == [index |-> index, timestamp |-> timestamp, data |-> data,
              previous_hash |-> previous_hash, hash |-> <<>>]
    IN  [b EXCEPT !.hash = calculate_hash(b)]

\* json.dumps succeeds on the content of a block with this data.
DataSerializable(data) ==
    "transactions" \in DOMAIN data =>
        \A i \in 1..Len(data.transactions) : Serializable(data.transactions[i].details)

GenesisPreviousHash == <<0>>      \* the string "0"

\* Mutant: the first block is numbered 1.
initialize_genesis_blockOne(t) ==
    <<Block(1, t, [message |-> "Genesis Block for Smart City"], GenesisPreviousHash)>>

\* SmartCityBlockchain.initialize_genesis_block
initialize_genesis_block(t) ==
    <<Block(0, t, [message |-> "Genesis Block for Smart City"], GenesisPreviousHash)>>

\* Mutant: the head is taken to be chain[0].
last_blockFirst(c) == c[1]

\* SmartCityBlockchain.last_block
last_block(c) == c[Len(c)]

\* Mutant: list.insert(0, new_block).
chain_appendFront(c, b) == <<b>> \o c

\* list.append of the new block
chain_append(c, b) == Append(c, b)

\* What a validation walk returns and prints: the boolean, the position i
\* at which it stopped, the block number its message names (the index field
\* of the block at i) and the check that failed.
Verdict(ok, position, index, reason) ==
    [ok |-> ok, position |-> position, index |-> index, reason |-> reason]

RECURSIVE is_chain_valid_from(_, _)
is_chain_valid_from(c, i) ==
    IF i >= Len(c) THEN Verdict(TRUE, -1, -1, "none")
    ELSE LET current_block == c[i + 1]
             previous_block == c[i]
         IN  IF current_block.hash # calculate_hash(current_block)
                 THEN Verdict(FALSE, i, current_block.index, "invalid hash")
             ELSE IF current_block.previous_hash # previous_block.hash
                 THEN Verdict(FALSE, i, current_block.index, "invalid previous hash")
             ELSE is_chain_valid_from(c, i + 1)

\* Mutant: the digest of the genesis block is checked too.
is_chain_validGenesis(c) ==
    IF c[1].hash # calculate_hash(c[1])
    THEN Verdict(FALSE, 0, c[1].index, "invalid hash")
    ELSE is_chain_valid_from(c, 1)

\* SmartCityBlockchain.is_chain_valid: for i in range(1, len(chain))
is_chain_valid(c) == is_chain_valid_from(c, 1)

\* Mutant: the test of tx["type"] is missing.
SelectTypeAll(txs, record_type) == txs

RECURSIVE SelectType(_, _)
SelectType(txs, record_type) ==
    IF txs = <<>> THEN <<>>
    ELSE (IF Head(txs).type = record_type THEN <<Head(txs)>> ELSE <<>>)
         \o SelectType(Tail(txs), record_type)

RECURSIVE get_block_data_by_type(_, _)
get_block_data_by_type(c, record_type) ==
    IF c = <<>> THEN <<>>
    ELSE (IF "transactions" \in DOMAIN Head(c).data
              THEN SelectType(Head(c).data.transactions, record_type)
              ELSE <<>>)
         \o get_block_data_by_type(Tail(c), record_type)

\* ---------------------------------------------------------- prajwal.py
\* CryptoBlock.__init__
CryptoBlock(block_id, prev_block_hash, created_time, block_data, nonce) ==
    LET b == [block_id |-> block_id, prev_block_hash |-> prev_block_hash,
              created_time |-> created_time, block_data |-> block_data,
              nonce |-> nonce, current_hash |-> <<>>]
    IN  [b EXCEPT !.current_hash = generate_hash(b)]

GenesisPrevBlockHash == <<0, HexBase, 0>>     \* the string "0x0"

\* SecureChain.initialize_genesis
initialize_genesis(t) ==
    CryptoBlock(0, GenesisPrevBlockHash, t, "Genesis Block - First block created", 0)

\* Mutant: the head is taken to be blocks[0].
fetch_last_blockFirst(bs) == bs[1]

\* SecureChain.fetch_last_block
fetch_last_block(bs) == bs[Len(bs)]

\* list.append of the mined block
blocks_append(bs, b) == Append(bs, b)

RECURSIVE validate_integrity_from(_, _)
validate_integrity_from(bs, i) ==
    IF i >= Len(bs) THEN Verdict(TRUE, -1, -1, "none")
    ELSE LET current_block == bs[i + 1]
             previous_block == bs[i]
         IN  IF current_block.current_hash # generate_hash(current_block)
                 THEN Verdict(FALSE, i, current_block.block_id, "Hash does not match!")
             ELSE IF current_block.prev_block_hash # previous_block.current_hash
                 THEN Verdict(FALSE, i, current_block.block_id, "Previous hash link is broken!")
             ELSE validate_integrity_from(bs, i + 1)

\* Mutant: the walk starts at position 2.
validate_integritySkip(bs) == validate_integrity_from(bs, 2)

\* SecureChain.validate_integrity: for i in range(1, len(blocks))
validate_integrity(bs) == validate_integrity_from(bs, 1)

RECURSIVE SumNonces(_)
SumNonces(bs) == IF bs = <<>> THEN 0 ELSE Head(bs).nonce + SumNonces(Tail(bs))

\* ------------------------------------------------------------------ Init
Init ==
    /\ prog \in {"city", "secure"}
    /\ \E t \in Times :
          /\ now = t
          /\ chain = IF prog = "city" THEN initialize_genesis_block(t) ELSE <<>>
          /\ blocks = IF prog = "secure" THEN <<initialize_genesis(t)>> ELSE <<>>
          /\ appended = IF prog = "city" THEN initialize_genesis_block(t)
                        ELSE <<initialize_genesis(t)>>
    /\ pending_data = <<>>
    /\ mining_complexity = DefaultComplexity
    /\ new_crypto_block = NoBlock
    /\ pc = "idle"
    /\ target_block = -1
    /\ op = "__init__"
    /\ err = "none"
    /\ out = None
    /\ before_add = "none"
    /\ tampers = 0

\* time.time(): the values a call can return in the current state.
time == now..MaxTime

\* ------------------------------------------------- SmartCityBlockchain
\* Mutant: the list in the newest block is still the pending list (mine_block
\* did not rebind pending_data), so add_data also appends to that block.
add_dataShared(sender, record_type, details) ==
    /\ prog = "city"
    /\ Len(pending_data) < MaxPending
    /\ \E t \in time :
          LET record == [sender |-> sender, type |-> record_type,
                         details |-> details, timestamp |-> t]
          IN  /\ now' = t
              /\ pending_data' = Append(pending_data, record)
              /\ chain' = IF "transactions" \in DOMAIN last_block(chain).data
                           THEN [chain EXCEPT ![Len(chain)].data.transactions = Append(@, record)]
                           ELSE chain
    /\ before_add' = IF op = "mine_block" THEN err ELSE "none"
    /\ op' = "add_data" /\ err' = "none" /\ out' = None
    /\ UNCHANGED <<prog, target_block, secureVars, appended, tampers>>

add_data(sender, record_type, details) ==
    /\ prog = "city"
    /\ Len(pending_data) < MaxPending
    /\ \E t \in time :
          /\ now' = t
          /\ pending_data' = Append(pending_data,
                [sender |-> sender, type |-> record_type,
                 details |-> details, timestamp |-> t])
    /\ before_add' = IF op = "mine_block" THEN err ELSE "none"
    /\ op' = "add_data" /\ err' = "none" /\ out' = None
    /\ UNCHANGED <<prog, target_block, chain, secureVars, appended, tampers>>

\* Mutant: no test of the pending buffer.
City_mine_blockUnguarded ==
    /\ prog = "city"
    /\ op' = "mine_block"
    /\ \E t \in time :
          LET data == [transactions |-> pending_data] IN
          IF ~DataSerializable(data)
          THEN /\ err' = "TypeError" /\ out' = None
               /\ now' = t
               /\ UNCHANGED <<chain, pending_data, appended>>
          ELSE LET new_block == Block(Len(chain), t, data, last_block(chain).hash) IN
               /\ Len(chain) < MaxChain
               /\ now' = t
               /\ chain' = chain_append(chain, new_block)
               /\ pending_data' = <<>>
               /\ appended' = Append(appended, new_block)
               /\ err' = "none" /\ out' = new_block
    /\ UNCHANGED <<prog, target_block, secureVars, tampers, before_add>>

\* Mutant: the pending buffer is not emptied after the append.
City_mine_blockKeep ==
    /\ prog = "city"
    /\ op' = "mine_block"
    /\ IF pending_data = <<>>
       THEN /\ err' = "ValueError" /\ out' = None
            /\ UNCHANGED <<now, chain, pending_data, appended>>
       ELSE \E t \in time :
            LET data == [transactions |-> pending_data] IN
            IF ~DataSerializable(data)
            THEN /\ err' = "TypeError" /\ out' = None
                 /\ now' = t
                 /\ UNCHANGED <<chain, pending_data, appended>>
            ELSE LET new_block == Block(Len(chain), t, data, last_block(chain).hash) IN
                 /\ Len(chain) < MaxChain
                 /\ now' = t
                 /\ chain' = chain_append(chain, new_block)
                 /\ pending_data' = pending_data
                 /\ appended' = Append(appended, new_block)
                 /\ err' = "none" /\ out' = new_block
    /\ UNCHANGED <<prog, target_block, secureVars, tampers, before_add>>

\* SmartCityBlockchain.mine_block
City_mine_block ==
    /\ prog = "city"
    /\ op' = "mine_block"
    /\ IF pending_data = <<>>
       THEN /\ err' = "ValueError" /\ out' = None
            /\ UNCHANGED <<now, chain, pending_data, appended>>
       ELSE \E t \in time :
            LET data == [transactions |-> pending_data] IN
            IF ~DataSerializable(data)
            THEN /\ err' = "TypeError" /\ out' = None
                 /\ now' = t
                 /\ UNCHANGED <<chain, pending_data, appended>>
            ELSE LET new_block == Block(Len(chain), t, data, last_block(chain).hash) IN
                 /\ Len(chain) < MaxChain
                 /\ now' = t
                 /\ chain' = chain_append(chain, new_block)
                 /\ pending_data' = <<>>
                 /\ appended' = Append(appended, new_block)
                 /\ err' = "none" /\ out' = new_block
    /\ UNCHANGED <<prog, target_block, secureVars, tampers, before_add>>

City_last_block ==
    /\ prog = "city"
    /\ op' = "last_block" /\ err' = "none" /\ out' = last_block(chain)
    /\ UNCHANGED <<prog, target_block, now, cityVars, secureVars, appended, tampers, before_add>>

City_is_chain_valid ==
    /\ prog = "city"
    /\ op' = "is_chain_valid" /\ err' = "none" /\ out' = is_chain_valid(chain)
    /\ UNCHANGED <<prog, target_block, now, cityVars, secureVars, appended, tampers, before_add>>

City_get_block_data_by_type(record_type) ==
    /\ prog = "city"
    /\ op' = "get_block_data_by_type" /\ err' = "none"
    /\ out' = get_block_data_by_type(chain, record_type)
    /\ UNCHANGED <<prog, target_block, now, cityVars, secureVars, appended, tampers, before_add>>

\* display_chain prints one group of lines per block; out is the block
\* numbers printed.
City_display_chain ==
    /\ prog = "city"
    /\ op' = "display_chain" /\ err' = "none"
    /\ out' = [i \in 1..Len(chain) |-> chain[i].index]
    /\ UNCHANGED <<prog, target_block, now, cityVars, secureVars, appended, tampers, before_add>>

CityNext ==
    \/ \E s \in Senders, ty \in RecordTypes, d \in Details : add_data(s, ty, d)
    \/ City_mine_block
    \/ City_last_block
    \/ City_is_chain_valid
    \/ \E ty \in RecordTypes : City_get_block_data_by_type(ty)
    \/ City_display_chain

\* ----------------------------------------------------------- SecureChain
\* The caller sets the public attribute mining_complexity on the chain it
\* has just constructed, before any other call.
set_mining_complexity(d) ==
    /\ prog = "secure" /\ pc = "idle" /\ op = "__init__"
    /\ mining_complexity' = d
    /\ op' = "set_mining_complexity" /\ err' = "none" /\ out' = None
    /\ UNCHANGED <<prog, target_block, now, cityVars, blocks, new_crypto_block, pc, appended, tampers, before_add>>

\* Mutant: one zero fewer is asked for.
meets_targetShort(digest, complexity) == startswith(digest, Zeros(complexity - 1))

\* mine_block's test of one digest against the difficulty
meets_target(digest, complexity) == startswith(digest, Zeros(complexity))

\* Mutant: the candidate is added to the chain before it is mined.
append_new_block_beginEarly(user_data) ==
    /\ prog = "secure" /\ pc = "idle"
    /\ Len(blocks) < MaxChain
    /\ op' = "append_new_block"
    /\ \E t \in time :
          /\ now' = t
          /\ IF ~Serializable(user_data)
             THEN /\ err' = "TypeError"
                  /\ UNCHANGED <<new_crypto_block, pc, blocks>>
             ELSE LET last_block_hash == fetch_last_block(blocks).current_hash
                      b == CryptoBlock(Len(blocks), last_block_hash, t, user_data, 0)
                  IN  /\ new_crypto_block' = [b EXCEPT !.nonce = 0]
                      /\ blocks' = blocks_append(blocks, b)
                      /\ pc' = "mining"
                      /\ err' = "none"
    /\ out' = None
    /\ UNCHANGED <<prog, target_block, cityVars, mining_complexity, appended, tampers, before_add>>

\* Mutant: the candidate is numbered len(self.blocks) + 1.
append_new_block_beginOneBased(user_data) ==
    /\ prog = "secure" /\ pc = "idle"
    /\ Len(blocks) < MaxChain
    /\ op' = "append_new_block"
    /\ \E t \in time :
          /\ now' = t
          /\ IF ~Serializable(user_data)
             THEN /\ err' = "TypeError"
                  /\ UNCHANGED <<new_crypto_block, pc>>
             ELSE LET last_block_hash == fetch_last_block(blocks).current_hash
                      b == CryptoBlock(Len(blocks) + 1, last_block_hash, t, user_data, 0)
                  IN  /\ new_crypto_block' = [b EXCEPT !.nonce = 0]
                      /\ pc' = "mining"
                      /\ err' = "none"
    /\ out' = None
    /\ UNCHANGED <<prog, target_block, cityVars, blocks, mining_complexity, appended, tampers, before_add>>

\* append_new_block up to the first pass of the mining loop: the candidate
\* is constructed (generate_hash raises TypeError on data json.dumps cannot
\* encode) and mine_block sets its nonce to 0.
append_new_block_begin(user_data) ==
    /\ prog = "secure" /\ pc = "idle"
    /\ Len(blocks) < MaxChain
    /\ op' = "append_new_block"
    /\ \E t \in time :
          /\ now' = t
          /\ IF ~Serializable(user_data)
             THEN /\ err' = "TypeError"
                  /\ UNCHANGED <<new_crypto_block, pc>>
             ELSE LET last_block_hash == fetch_last_block(blocks).current_hash
                      b == CryptoBlock(Len(blocks), last_block_hash, t, user_data, 0)
                  IN  /\ new_crypto_block' = [b EXCEPT !.nonce = 0]
                      /\ pc' = "mining"
                      /\ err' = "none"
    /\ out' = None
    /\ UNCHANGED <<prog, target_block, cityVars, blocks, mining_complexity, appended, tampers, before_add>>

\* Mutant: the nonce is incremented before the digest is tested, so the loop
\* ends with the digest of the nonce before the final one.
mine_block_attemptLate ==
    /\ prog = "secure" /\ pc = "mining"
    /\ new_crypto_block.nonce < MaxNonce
    /\ LET hashed == [new_crypto_block EXCEPT !.current_hash = generate_hash(new_crypto_block)]
       IN  /\ new_crypto_block' = [hashed EXCEPT !.nonce = @ + 1]
           /\ pc' = IF meets_target(hashed.current_hash, mining_complexity)
                    THEN "mined" ELSE "mining"
    /\ op' = "mine_block" /\ err' = "none" /\ out' = None
    /\ UNCHANGED <<prog, target_block, now, cityVars, blocks, mining_complexity, appended, tampers, before_add>>

\* Mutant: a pass that fails does not move the nonce.
mine_block_attemptStuck ==
    /\ prog = "secure" /\ pc = "mining"
    /\ LET hashed == [new_crypto_block EXCEPT !.current_hash = generate_hash(new_crypto_block)]
       IN  /\ new_crypto_block' = hashed
           /\ pc' = IF meets_target(hashed.current_hash, mining_complexity)
                    THEN "mined" ELSE "mining"
    /\ op' = "mine_block" /\ err' = "none" /\ out' = None
    /\ UNCHANGED <<prog, target_block, now, cityVars, blocks, mining_complexity, appended, tampers, before_add>>

\* One pass of the while loop of mine_block.
mine_block_attempt ==
    /\ prog = "secure" /\ pc = "mining"
    /\ LET hashed == [new_crypto_block EXCEPT !.current_hash = generate_hash(new_crypto_block)]
       IN  IF meets_target(hashed.current_hash, mining_complexity)
           THEN /\ new_crypto_block' = hashed
                /\ pc' = "mined"
           ELSE /\ new_crypto_block.nonce < MaxNonce
                /\ new_crypto_block' = [hashed EXCEPT !.nonce = @ + 1]
                /\ pc' = "mining"
    /\ op' = "mine_block" /\ err' = "none" /\ out' = None
    /\ UNCHANGED <<prog, target_block, now, cityVars, blocks, mining_complexity, appended, tampers, before_add>>

\* Mutant: the candidate is appended without waiting for mine_block to
\* return.
append_new_block_endUnmined ==
    /\ prog = "secure" /\ pc \in {"mining", "mined"}
    /\ blocks' = blocks_append(blocks, new_crypto_block)
    /\ appended' = Append(appended, new_crypto_block)
    /\ new_crypto_block' = NoBlock
    /\ pc' = "idle"
    /\ op' = "append_new_block" /\ err' = "none" /\ out' = None
    /\ UNCHANGED <<prog, target_block, now, cityVars, mining_complexity, tampers, before_add>>

\* append_new_block after mine_block has returned.
append_new_block_end ==
    /\ prog = "secure" /\ pc = "mined"
    /\ blocks' = blocks_append(blocks, new_crypto_block)
    /\ appended' = Append(appended, new_crypto_block)
    /\ new_crypto_block' = NoBlock
    /\ pc' = "idle"
    /\ op' = "append_new_block" /\ err' = "none" /\ out' = None
    /\ UNCHANGED <<prog, target_block, now, cityVars, mining_complexity, tampers, before_add>>

\* The mining loop has no exit but success: it is stopped from outside
\* (KeyboardInterrupt), the exception leaves append_new_block and the
\* candidate is dropped.
mining_aborted ==
    /\ prog = "secure" /\ pc \in {"mining", "mined"}
    /\ new_crypto_block' = NoBlock
    /\ pc' = "idle"
    /\ op' = "append_new_block" /\ err' = "KeyboardInterrupt" /\ out' = None
    /\ UNCHANGED <<prog, target_block, now, cityVars, blocks, mining_complexity, appended, tampers, before_add>>

Secure_fetch_last_block ==
    /\ prog = "secure" /\ pc = "idle"
    /\ op' = "fetch_last_block" /\ err' = "none" /\ out' = fetch_last_block(blocks)
    /\ UNCHANGED <<prog, target_block, now, cityVars, secureVars, appended, tampers, before_add>>

Secure_validate_integrity ==
    /\ prog = "secure" /\ pc = "idle"
    /\ op' = "validate_integrity" /\ err' = "none" /\ out' = validate_integrity(blocks)
    /\ UNCHANGED <<prog, target_block, now, cityVars, secureVars, appended, tampers, before_add>>

Secure_display_chain_stats ==
    /\ prog = "secure" /\ pc = "idle"
    /\ op' = "display_chain_stats" /\ err' = "none"
    /\ out' = [total_blocks |-> Len(blocks), difficulty |-> mining_complexity,
               status |-> validate_integrity(blocks).ok,
               total_nonces |-> SumNonces(blocks)]
    /\ UNCHANGED <<prog, target_block, now, cityVars, secureVars, appended, tampers, before_add>>

SecureNext ==
    \/ \E d \in Complexities : set_mining_complexity(d)
    \/ \E u \in UserData : append_new_block_begin(u)
    \/ mine_block_attempt
    \/ append_new_block_end
    \/ mining_aborted
    \/ Secure_fetch_last_block
    \/ Secure_validate_integrity
    \/ Secure_display_chain_stats

Next == CityNext \/ SecureNext

Spec == Init /\ [][Next]_vars

\* ------------------------------------------- direct calls of mine_block
\* mine_block is a public method: outside code can call it on a block that
\* is already in the chain, my_blockchain.mine_block(my_blockchain.blocks[k]).
\* The block is changed in place, so the chain holds the block as the loop
\* leaves it after each pass.

\* Mutant: the nonce of the target is not set to 0 before the search.
mine_block_beginKeep(k) ==
    /\ prog = "secure" /\ pc = "idle"
    /\ k \in 0..(Len(blocks) - 1)
    /\ target_block' = k
    /\ pc' = "remining"
    /\ op' = "mine_block" /\ err' = "none" /\ out' = None
    /\ UNCHANGED <<prog, now, cityVars, blocks, mining_complexity, new_crypto_block,
                   appended, tampers, before_add>>

\* mine_block(blocks[k]) up to the first pass of its loop: target_block.nonce = 0
mine_block_begin(k) ==
    /\ prog = "secure" /\ pc = "idle"
    /\ k \in 0..(Len(blocks) - 1)
    /\ target_block' = k
    /\ blocks' = [blocks EXCEPT ![k + 1].nonce = 0]
    /\ pc' = "remining"
    /\ op' = "mine_block" /\ err' = "none" /\ out' = None
    /\ UNCHANGED <<prog, now, cityVars, mining_complexity, new_crypto_block,
                   appended, tampers, before_add>>

\* Mutant: the nonce is incremented before the digest is tested.
mine_block_passLate ==
    /\ prog = "secure" /\ pc = "remining"
    /\ blocks[target_block + 1].nonce < MaxNonce
    /\ LET b == blocks[target_block + 1]
           hashed == [b EXCEPT !.current_hash = generate_hash(b)]
       IN  /\ blocks' = [blocks EXCEPT ![target_block + 1] = [hashed EXCEPT !.nonce = @ + 1]]
           /\ pc' = IF meets_target(hashed.current_hash, mining_complexity)
                    THEN "idle" ELSE "remining"
    /\ op' = "mine_block" /\ err' = "none" /\ out' = None
    /\ UNCHANGED <<prog, target_block, now, cityVars, mining_complexity,
                   new_crypto_block, appended, tampers, before_add>>

\* One pass of the while loop of mine_block on blocks[target_block]; the
\* call returns when the digest meets the difficulty.
mine_block_pass ==
    /\ prog = "secure" /\ pc = "remining"
    /\ LET b == blocks[target_block + 1]
           hashed == [b EXCEPT !.current_hash = generate_hash(b)]
       IN  IF meets_target(hashed.current_hash, mining_complexity)
           THEN /\ blocks' = [blocks EXCEPT ![target_block + 1] = hashed]
                /\ pc' = "idle"
           ELSE /\ b.nonce < MaxNonce
                /\ blocks' = [blocks EXCEPT ![target_block + 1] = [hashed EXCEPT !.nonce = @ + 1]]
                /\ pc' = "remining"
    /\ op' = "mine_block" /\ err' = "none" /\ out' = None
    /\ UNCHANGED <<prog, target_block, now, cityVars, mining_complexity,
                   new_crypto_block, appended, tampers, before_add>>

RemineNext ==
    \/ \E d \in Complexities : set_mining_complexity(d)
    \/ \E u \in UserData : append_new_block_begin(u)
    \/ mine_block_attempt
    \/ append_new_block_end
    \/ \E k \in 0..(Len(blocks) - 1) : mine_block_begin(k)
    \/ mine_block_pass
    \/ Secure_validate_integrity

RemineSpec == Init /\ [][RemineNext]_vars

\* ------------------------------------------------- the running program
\* prajwal.py runs single-threaded: a call that has started keeps running,
\* so the loop of mine_block takes its next pass and append_new_block goes
\* on after mine_block has returned.  Nothing in the code stops the loop.
LiveNext ==
    \/ \E d \in Complexities : set_mining_complexity(d)
    \/ \E u \in UserData : append_new_block_begin(u)
    \/ mine_block_attempt
    \/ append_new_block_end
    \/ Secure_validate_integrity

LiveSpec ==
    /\ Init /\ [][LiveNext]_vars
    /\ WF_vars(mine_block_attempt)
    /\ WF_vars(append_new_block_end)

\* ------------------------------------------------- direct field overwrites
\* Python attributes are public: code outside the classes can assign to a
\* field of a block that is in the chain.  The digests such code can write:
\* the stored digest of a block of the chain, the digest recomputed from the
\* block's current fields, and a made-up one.
ForgedDigest == sha256_hexdigest(<<"forged">>, PrefixLen)
ForgedData == [transactions |-> <<[sender |-> "Mallory", type |-> "waste_disposal",
                                   details |-> "weight_kg", timestamp |-> 0]>>]

CityFields == {"index", "timestamp", "data", "previous_hash", "hash"}
CityValues(c, k, f) ==
    CASE f = "index" -> {MaxChain + 1}
      [] f = "timestamp" -> {0}
      [] f = "data" -> {ForgedData}
      [] f = "previous_hash" -> {ForgedDigest} \cup {c[i].hash : i \in 1..Len(c)}
      [] f = "hash" -> {ForgedDigest, calculate_hash(c[k + 1])}

SecureFields == {"block_id", "created_time", "block_data", "prev_block_hash",
                 "nonce", "current_hash"}
SecureValues(bs, k, f) ==
    CASE f = "block_id" -> {MaxChain + 1}
      [] f = "created_time" -> {0}
      [] f = "block_data" -> {"forged"}
      [] f = "nonce" -> {MaxNonce + 1}
      [] f = "prev_block_hash" -> {ForgedDigest} \cup {bs[i].current_hash : i \in 1..Len(bs)}
      [] f = "current_hash" -> {ForgedDigest, generate_hash(bs[k + 1])}

\* chain[k].f = v
City_overwrite(k, f, v) ==
    /\ prog = "city"
    /\ tampers < MaxTamper
    /\ k \in 0..(Len(chain) - 1)
    /\ v \in CityValues(chain, k, f)
    /\ chain[k + 1][f] # v
    /\ chain' = [chain EXCEPT ![k + 1][f] = v]
    /\ tampers' = tampers + 1
    /\ op' = "overwrite" /\ err' = "none" /\ out' = None
    /\ UNCHANGED <<prog, target_block, now, pending_data, secureVars, appended, before_add>>

\* blocks[k].f = v, between two calls
Secure_overwrite(k, f, v) ==
    /\ prog = "secure" /\ pc = "idle"
    /\ tampers < MaxTamper
    /\ k \in 0..(Len(blocks) - 1)
    /\ v \in SecureValues(blocks, k, f)
    /\ blocks[k + 1][f] # v
    /\ blocks' = [blocks EXCEPT ![k + 1][f] = v]
    /\ tampers' = tampers + 1
    /\ op' = "overwrite" /\ err' = "none" /\ out' = None
    /\ UNCHANGED <<prog, target_block, now, cityVars, mining_complexity, new_crypto_block, pc, appended, before_add>>

TamperNext ==
    \/ add_data("Resident_123", "waste_disposal", "weight_kg")
    \/ City_mine_block
    \/ City_is_chain_valid
    \/ \E k \in 0..(Len(chain) - 1), f \in CityFields :
          \E v \in CityValues(chain, k, f) : City_overwrite(k, f, v)
    \/ \E u \in UserData : append_new_block_begin(u)
    \/ mine_block_attempt
    \/ append_new_block_end
    \/ mining_aborted
    \/ Secure_validate_integrity
    \/ \E k \in 0..(Len(blocks) - 1), f \in SecureFields :
          \E v \in SecureValues(blocks, k, f) : Secure_overwrite(k, f, v)

TamperSpec == Init /\ [][TamperNext]_vars

\* A chain built one record per block and then validated, with overwrites
\* at any point: the clock stands still after construction (validation
\* reads a timestamp only as part of the digest), and the data of an append
\* is fixed by its position, so that each search ends.
CorruptData == IF Len(blocks) = 1 THEN "beta" ELSE "alpha"

CorruptNext ==
    \/ /\ pending_data = <<>> /\ now' = now
       /\ add_data("Resident_123", "waste_disposal", "weight_kg")
    \/ now' = now /\ City_mine_block
    \/ City_is_chain_valid
    \/ \E k \in 0..(Len(chain) - 1), f \in CityFields :
          \E v \in CityValues(chain, k, f) : City_overwrite(k, f, v)
    \/ now' = now /\ append_new_block_begin(CorruptData)
    \/ mine_block_attempt
    \/ append_new_block_end
    \/ Secure_validate_integrity
    \/ \E k \in 0..(Len(blocks) - 1), f \in SecureFields :
          \E v \in SecureValues(blocks, k, f) : Secure_overwrite(k, f, v)

CorruptSpec == Init /\ [][CorruptNext]_vars

\* ------------------------------------------------------------ properties
\* C1: in every state reached by construction and appends, the
\* previous-digest field of every block after the first equals the stored
\* digest of the block before it, in both chains.
C1_ChainOfCustody ==
    /\ \A i \in 2..Len(chain) : chain[i].previous_hash = chain[i - 1].hash
    /\ \A i \in 2..Len(blocks) : blocks[i].prev_block_hash = blocks[i - 1].current_hash

\* Two blocks have been appended to the SmartCityBlockchain.
C1_Witness ==
    /\ prog = "city" /\ op = "mine_block" /\ err = "none"
    /\ Len(chain) >= 3

\* C2: the stored digest of every block of a chain, genesis included, is
\* the digest of its current fields, and so is the digest of a candidate
\* when the mining loop has finished.
C2_SelfConsistency ==
    /\ \A i \in 1..Len(chain) : chain[i].hash = calculate_hash(chain[i])
    /\ \A i \in 1..Len(blocks) : blocks[i].current_hash = generate_hash(blocks[i])
    /\ pc = "mined" => new_crypto_block.current_hash = generate_hash(new_crypto_block)

\* A block whose nonce the mining loop had to change is in the SecureChain.
C2_Witness ==
    /\ prog = "secure"
    /\ \E i \in 2..Len(blocks) : blocks[i].nonce > 0

\* C4: a chain changed only through its own operations validates, whatever
\* its length, and a validation call returns true.
C4_UntamperedValidates ==
    /\ is_chain_valid(chain).ok
    /\ validate_integrity(blocks).ok
    /\ op \in {"is_chain_valid", "validate_integrity"} => out.ok

\* validate_integrity has returned true on a SecureChain of three blocks.
C4_Witness ==
    /\ prog = "secure" /\ op = "validate_integrity"
    /\ Len(blocks) >= 3 /\ out.ok

\* C5 as stated: when the mining loop has finished, the digest starts with
\* exactly mining_complexity zeros (the next character is not a zero) and is
\* the digest of the final nonce.
C5_ExactlyDZeros ==
    pc = "mined" =>
        /\ LeadingZeros(new_crypto_block.current_hash) = mining_complexity
        /\ new_crypto_block.current_hash = generate_hash(new_crypto_block)

\* C5 as amended: when the mining loop has finished, the first
\* mining_complexity characters of the digest are zeros (more may follow)
\* and the digest is the digest of the final nonce.
C5_AtLeastDZeros ==
    pc = "mined" =>
        /\ \A i \in 1..mining_complexity : new_crypto_block.current_hash[i] = 0
        /\ new_crypto_block.current_hash = generate_hash(new_crypto_block)

\* The loop has finished at the constructed difficulty after changing the
\* nonce.
C5_Witness ==
    /\ pc = "mined" /\ mining_complexity = DefaultComplexity
    /\ new_crypto_block.nonce > 0

\* The positions (Python numbering, from 1) at which a chain differs from
\* what was appended, and whether a block differs in one field only.
Changed(c) == {k \in 1..(Len(c) - 1) : c[k + 1] # appended[k + 1]}
OneFieldChanged(c, k) ==
    Cardinality({f \in DOMAIN c[k + 1] : c[k + 1][f] # appended[k + 1][f]}) = 1
Least(S) == CHOOSE k \in S : \A j \in S : k <= j

\* The blocks were appended to an intact chain: each was linked to the
\* digest its predecessor had when that one was appended.
BuiltIntact ==
    \A i \in 2..Len(appended) :
        IF prog = "city" THEN appended[i].previous_hash = appended[i - 1].hash
        ELSE appended[i].prev_block_hash = appended[i - 1].current_hash

\* The case of C3: the chain was built intact, the genesis block is as
\* constructed, some later block was overwritten, and every overwritten
\* block differs from what was appended in one field (so its digest was not
\* recomputed).
C3_Case(c) ==
    /\ c # <<>> /\ c[1] = appended[1]
    /\ BuiltIntact
    /\ Changed(c) # {}
    /\ \A k \in Changed(c) : OneFieldChanged(c, k)

\* C3: with one field of some appended blocks overwritten and their digests
\* not recomputed, validation returns false, the block it reports is the
\* first overwritten one, and the failure it reports there is the digest
\* mismatch, not the linkage.
C3_TamperDetection ==
    /\ (op = "is_chain_valid" /\ C3_Case(chain)) =>
          /\ ~out.ok
          /\ out.index = Least(Changed(chain))
          /\ out.reason = "invalid hash"
    /\ (op = "validate_integrity" /\ C3_Case(blocks)) =>
          /\ ~out.ok
          /\ out.index = Least(Changed(blocks))
          /\ out.reason = "Hash does not match!"

\* What of C3 the code does: validation returns false at the first
\* overwritten position with the digest mismatch as the reason.
C3_DetectedAtPosition ==
    /\ (op = "is_chain_valid" /\ C3_Case(chain)) =>
          /\ ~out.ok
          /\ out.position = Least(Changed(chain))
          /\ out.reason = "invalid hash"
    /\ (op = "validate_integrity" /\ C3_Case(blocks)) =>
          /\ ~out.ok
          /\ out.position = Least(Changed(blocks))
          /\ out.reason = "Hash does not match!"

\* A step that completes an append.
AppendStep ==
    \/ prog = "city" /\ op' = "mine_block" /\ err' = "none"
    \/ prog = "secure" /\ pc = "mined" /\ pc' = "idle" /\ err' = "none"

\* A step in which an append fails or is stopped.
FailedAppendStep ==
    \/ prog = "city" /\ op' = "mine_block" /\ err' # "none"
    \/ prog = "secure" /\ op' = "append_new_block" /\ err' # "none"

\* C6: an append makes the chain one block longer with the new block last,
\* and no step shortens the chain, reorders it or changes an earlier block.
C6_AppendOnlyGrowth ==
    [][ /\ (AppendStep /\ prog = "city") => chain' = Append(chain, out')
        /\ (AppendStep /\ prog = "secure") => blocks' = Append(blocks, new_crypto_block)
        /\ Len(chain') >= Len(chain) /\ SubSeq(chain', 1, Len(chain)) = chain
        /\ Len(blocks') >= Len(blocks) /\ SubSeq(blocks', 1, Len(blocks)) = blocks
      ]_vars

\* A second append to the SmartCityBlockchain has returned its block.
C6_Witness ==
    /\ prog = "city" /\ op = "mine_block" /\ err = "none"
    /\ Len(chain) >= 3 /\ out = chain[Len(chain)]

\* C7: a step that does not complete an append (add_data, the head access,
\* validation, the query, the display, a pass of the mining loop on the
\* candidate, a failed append) leaves both block sequences as they were.
C7_OnlyAppendGrows ==
    [][ ~AppendStep => (chain' = chain /\ blocks' = blocks) ]_vars

\* add_data has run on a chain whose newest block holds transactions.
C7_Witness ==
    /\ prog = "city" /\ op = "add_data"
    /\ Len(chain) >= 2 /\ pending_data # <<>>

\* No block in a chain is partially built or unmined.
NoPartialBlock ==
    /\ \A i \in 2..Len(chain) :
          /\ chain[i].hash = calculate_hash(chain[i])
          /\ DataSerializable(chain[i].data)
    /\ \A i \in 2..Len(blocks) :
          /\ blocks[i].current_hash = generate_hash(blocks[i])
          /\ LeadingZeros(blocks[i].current_hash) >= mining_complexity

\* C8: an append that fails (payload not serializable, nothing pending) or
\* is stopped while mining leaves the chain as it was, and no step puts a
\* partially built or unmined block into a chain.
C8_AllOrNothing ==
    [][ /\ FailedAppendStep => (chain' = chain /\ blocks' = blocks)
        /\ NoPartialBlock'
      ]_vars

\* A mining loop was stopped on a SecureChain that already held a mined
\* block.
C8_Witness ==
    /\ prog = "secure" /\ err = "KeyboardInterrupt"
    /\ Len(blocks) >= 2

\* C9: after an append failed on a payload that cannot be serialized, the
\* next append with valid payload succeeds: on SmartCityBlockchain add_data
\* of a serializable record then mine_block adds one block; on SecureChain
\* append_new_block with serializable data constructs its candidate and
\* starts mining it.
C9_SerializationRecoverable ==
    [][ /\ ( /\ prog = "city" /\ op = "add_data" /\ before_add = "TypeError"
             /\ Serializable(pending_data[Len(pending_data)].details)
             /\ op' = "mine_block" )
           => (err' = "none" /\ Len(chain') = Len(chain) + 1)
        /\ ( /\ prog = "secure" /\ op = "append_new_block" /\ err = "TypeError"
             /\ Len(blocks) < MaxChain )
           => \A u \in UserData : Serializable(u) =>
                 ENABLED (append_new_block_begin(u) /\ err' = "none" /\ pc' = "mining")
      ]_vars

\* No block of the SmartCityBlockchain has an empty transaction list.
NoEmptyBlock ==
    \A i \in 1..Len(chain) :
        "transactions" \in DOMAIN chain[i].data => chain[i].data.transactions # <<>>

\* C10 as stated: mine_block on an empty buffer raises and changes neither
\* the chain nor the buffer; one add_data then mine_block succeeds; no block
\* has an empty transaction list.
C10_EmptyMineRecoverable ==
    [][ /\ (prog = "city" /\ op' = "mine_block" /\ pending_data = <<>>)
           => (err' = "ValueError" /\ chain' = chain /\ pending_data' = pending_data)
        /\ ( /\ prog = "city" /\ op = "add_data" /\ before_add = "ValueError"
             /\ op' = "mine_block" )
           => (err' = "none" /\ Len(chain') = Len(chain) + 1)
        /\ NoEmptyBlock'
      ]_vars

\* C10 as amended: the same, with the add_data being of a record that can
\* be serialized.
C10_EmptyMineRecoverableValid ==
    [][ /\ (prog = "city" /\ op' = "mine_block" /\ pending_data = <<>>)
           => (err' = "ValueError" /\ chain' = chain /\ pending_data' = pending_data)
        /\ ( /\ prog = "city" /\ op = "add_data" /\ before_add = "ValueError"
             /\ Serializable(pending_data[Len(pending_data)].details)
             /\ op' = "mine_block" )
           => (err' = "none" /\ Len(chain') = Len(chain) + 1)
        /\ NoEmptyBlock'
      ]_vars

\* mine_block failed on the empty buffer, add_data followed, and the second
\* block of the chain was then mined.
C10_Witness ==
    /\ prog = "city" /\ op = "mine_block" /\ err = "none"
    /\ before_add = "ValueError" /\ Len(chain) >= 3

\* C11: a chain is constructed with one block; in every state the chain has
\* at least one block, its first block is the genesis block as constructed
\* (index 0, the sentinel as previous digest, nonce 0 in the SecureChain),
\* and the head access returns the block appended last without raising.
C11_GenesisAnchored ==
    /\ op = "__init__" => Len(chain) + Len(blocks) = 1
    /\ prog = "city" =>
          /\ Len(chain) >= 1
          /\ chain[1] = appended[1]
          /\ chain[1].index = 0
          /\ chain[1].previous_hash = GenesisPreviousHash
    /\ prog = "secure" =>
          /\ Len(blocks) >= 1
          /\ blocks[1] = appended[1]
          /\ blocks[1].block_id = 0
          /\ blocks[1].prev_block_hash = GenesisPrevBlockHash
          /\ blocks[1].nonce = 0
    /\ op \in {"last_block", "fetch_last_block"} =>
          (err = "none" /\ out = appended[Len(appended)])

\* The head of a SmartCityBlockchain of three blocks has been read.
C11_Witness ==
    /\ prog = "city" /\ op = "last_block"
    /\ Len(chain) >= 3 /\ out.index = 2

\* The field that holds a block's stored digest, and the positions k >= 1
\* at which the content of a block (every other field) differs from what
\* was appended.
DigestField == IF prog = "city" THEN "hash" ELSE "current_hash"
LinkField == IF prog = "city" THEN "previous_hash" ELSE "prev_block_hash"
ContentChanged(c) ==
    {k \in 1..(Len(c) - 1) :
        \E f \in DOMAIN c[k + 1] \ {DigestField} : c[k + 1][f] # appended[k + 1][f]}

\* The chain the running script owns and the last call was a validation.
TheChain == IF prog = "city" THEN chain ELSE blocks
Validated == op \in {"is_chain_valid", "validate_integrity"}

DigestKept(c, k) == c[k + 1][DigestField] = appended[k + 1][DigestField]

\* A block follows block k and its previous-digest field holds the digest
\* block k was appended with.
SuccessorHoldsOld(c, k) ==
    /\ k + 2 <= Len(c)
    /\ c[k + 2][LinkField] = appended[k + 1][DigestField]

C13_MineThenAppend ==
    [][ /\ blocks' # blocks =>
              /\ pc = "mined" /\ pc' = "idle"
              /\ blocks' = Append(blocks, new_crypto_block)
              /\ startswith(new_crypto_block.current_hash, Zeros(mining_complexity))
        /\ \A i \in 2..Len(blocks') :
              startswith(blocks'[i].current_hash, Zeros(mining_complexity'))
      ]_vars

\* A mining loop is past its first pass on a SecureChain that holds a mined
\* block and whose genesis block does not meet the difficulty.
C13_Witness ==
    /\ prog = "secure" /\ pc = "mining" /\ new_crypto_block.nonce > 0
    /\ Len(blocks) >= 2
    /\ ~startswith(blocks[1].current_hash, Zeros(mining_complexity))

\* The search on block b has ended at the least nonce that meets difficulty
\* d: the digest of b.nonce meets it and that of every smaller nonce fails.
SearchEnded(b, d) ==
    /\ b.current_hash = generate_hash(b)
    /\ startswith(b.current_hash, Zeros(d))
    /\ \A n \in 0..(b.nonce - 1) :
          ~startswith(generate_hash([b EXCEPT !.nonce = n]), Zeros(d))

\* C14: mine_block sets the nonce of its target to 0 whatever it was (the
\* candidate of an append, or a block of the chain in a direct call), each
\* pass that fails moves the nonce up by one, and the loop ends at the least
\* nonce whose digest meets the difficulty; with difficulty 0 the first pass
\* ends it at nonce 0.
C14_LinearSearch ==
    [][ /\ (pc = "idle" /\ pc' = "mining") => new_crypto_block'.nonce = 0
        /\ (pc = "idle" /\ pc' = "remining") => blocks'[target_block' + 1].nonce = 0
        /\ (pc = "mining" /\ pc' = "mining") =>
              new_crypto_block'.nonce = new_crypto_block.nonce + 1
        /\ (pc = "remining" /\ pc' = "remining") =>
              blocks'[target_block + 1].nonce = blocks[target_block + 1].nonce + 1
        /\ (pc = "mining" /\ pc' = "mined") =>
              /\ new_crypto_block'.nonce = new_crypto_block.nonce
              /\ SearchEnded(new_crypto_block', mining_complexity)
        /\ (pc = "remining" /\ pc' = "idle") =>
              /\ blocks'[target_block + 1].nonce = blocks[target_block + 1].nonce
              /\ SearchEnded(blocks'[target_block + 1], mining_complexity)
        /\ (pc = "mining" /\ mining_complexity = 0) =>
              (pc' = "mined" /\ new_crypto_block'.nonce = 0)
        /\ (pc = "remining" /\ mining_complexity = 0) =>
              (pc' = "idle" /\ blocks'[target_block + 1].nonce = 0)
      ]_vars

\* A direct call of mine_block on a block of the chain whose nonce was not 0
\* has returned, with the search ended above nonce 0.
C14_Witness ==
    /\ prog = "secure" /\ pc = "idle" /\ op = "mine_block"
    /\ target_block >= 1
    /\ appended[target_block + 1].nonce > 0
    /\ blocks[target_block + 1].nonce > 0

\* Some nonce the search can reach gives block b a digest that meets
\* difficulty d.
Solvable(b, d) ==
    \E n \in 0..MaxNonce : startswith(generate_hash([b EXCEPT !.nonce = n]), Zeros(d))

\* C15: a mining loop on a candidate that some nonce solves ends, and the
\* append that runs it then makes the chain one block longer; a mining loop
\* on a candidate that no nonce solves never ends, and the chain stays as
\* it is.
C15_MiningTermination ==
    /\ \A n \in 1..MaxChain :
          ( /\ pc = "mining" /\ Len(blocks) = n
            /\ Solvable(new_crypto_block, mining_complexity) )
          ~> (pc = "idle" /\ Len(blocks) = n + 1)
    /\ [][ (pc = "mining" /\ ~Solvable(new_crypto_block, mining_complexity))
              => (pc' = "mining" /\ blocks' = blocks) ]_vars

\* After an append whose search ended above nonce 0, a mining loop has used
\* up its nonces on a candidate that none of them solves.
C15_Witness ==
    /\ prog = "secure" /\ pc = "mining"
    /\ Len(blocks) >= 2 /\ blocks[2].nonce > 0
    /\ new_crypto_block.nonce = MaxNonce
    /\ ~Solvable(new_crypto_block, mining_complexity)

\* C16: in every state reached by construction and appends, the index of
\* the block at Python position i is i, in both chains (so the indices are
\* 0, 1, 2, ... without gap or repeat), and a candidate being mined carries
\* the position it will be appended at.
C16_IndexIsPosition ==
    /\ \A i \in 1..Len(chain) : chain[i].index = i - 1
    /\ \A i \in 1..Len(blocks) : blocks[i].block_id = i - 1
    /\ pc \in {"mining", "mined"} => new_crypto_block.block_id = Len(blocks)

\* An append has filled the SecureChain and its last block carries the last
\* position.
C16_Witness ==
    /\ prog = "secure" /\ pc = "idle" /\ op = "append_new_block" /\ err = "none"
    /\ Len(blocks) = MaxChain /\ blocks[MaxChain].block_id = MaxChain - 1

\* Every record the SmartCityBlockchain holds, in the order of its place:
\* the payloads of the blocks in chain order, then the pending buffer.
RECURSIVE MinedRecords(_)
MinedRecords(c) ==
    IF c = <<>> THEN <<>>
    ELSE (IF "transactions" \in DOMAIN Head(c).data THEN Head(c).data.transactions ELSE <<>>)
         \o MinedRecords(Tail(c))
Ledger == MinedRecords(chain) \o pending_data

\* C17: a successful mine_block puts the pending records, in their order,
\* into the one block it appends and leaves the buffer empty; add_data adds
\* its record at the end of the buffer and leaves every block as it was
\* (payload and digest); no other step moves, drops or repeats a record, so
\* each added record has one place, in the buffer or in one block.
C17_Batching ==
    [][ prog = "city" =>
          /\ (op' = "mine_block" /\ err' = "none") =>
                /\ chain' = Append(chain, out')
                /\ out'.data.transactions = pending_data
                /\ out'.hash = calculate_hash(out')
                /\ pending_data' = <<>>
                /\ Ledger' = Ledger
          /\ op' = "add_data" =>
                /\ chain' = chain
                /\ Len(pending_data') = Len(pending_data) + 1
                /\ Ledger' = Append(Ledger, pending_data'[Len(pending_data')])
          /\ (op' # "add_data" /\ ~(op' = "mine_block" /\ err' = "none")) =>
                (chain' = chain /\ pending_data' = pending_data)
      ]_vars

\* add_data has run after a block holding two records was mined, and a
\* second block holding one record follows it.
C17_Witness ==
    /\ prog = "city" /\ op = "add_data"
    /\ Len(chain) >= 3
    /\ Len(chain[2].data.transactions) = 2
    /\ Len(chain[3].data.transactions) = 1
    /\ Len(pending_data) = 1

\* ------------------------------------------------- records of two types
\* main.py's script adds records of several types, each with a sender of
\* its own, before it queries: the n-th record added is sent by
\* <<"Sender", n>>, so that two records are never equal.  The clock stands
\* still after construction: the query does not read a timestamp.
QueryTypes == {"waste_disposal", "air_quality"}

QueryNext ==
    \/ \E ty \in QueryTypes :
          /\ now' = now
          /\ add_data(<<"Sender", Len(Ledger) + 1>>, ty, "weight_kg")
    \/ now' = now /\ City_mine_block
    \/ \E ty \in QueryTypes : City_get_block_data_by_type(ty)

QuerySpec == Init /\ [][QueryNext]_vars

\* The places <<i, j>> (block i, record j of its payload) of the mined
\* records of type ty, and the order of two places: by block, then by the
\* order within the block.
Places(c, ty) ==
    {p \in (1..Len(c)) \X (1..MaxPending) :
        /\ "transactions" \in DOMAIN c[p[1]].data
        /\ p[2] <= Len(c[p[1]].data.transactions)
        /\ c[p[1]].data.transactions[p[2]].type = ty}
Before(p, q) == p[1] < q[1] \/ (p[1] = q[1] /\ p[2] < q[2])

\* res lists the records at the places of type ty, each once, in order.
IsQueryResult(res, c, ty) ==
    /\ Len(res) = Cardinality(Places(c, ty))
    /\ \A p \in Places(c, ty) :
          res[Cardinality({q \in Places(c, ty) : Before(q, p)}) + 1]
              = c[p[1]].data.transactions[p[2]]

\* C18: get_block_data_by_type(ty) returns the mined records of type ty,
\* each once, by block position and then by their order in the block, so
\* nothing of the genesis block and nothing that is pending; it changes
\* neither the chain nor the pending buffer; repeated right away it returns
\* the same list.
C18_QueryByType ==
    [][ \A ty \in QueryTypes :
          City_get_block_data_by_type(ty) =>
              /\ IsQueryResult(out', chain, ty)
              /\ \A n \in 1..Len(out') : out'[n].type = ty
              /\ chain' = chain /\ pending_data' = pending_data
              /\ (op = "get_block_data_by_type" /\ out # <<>> /\ out[1].type = ty)
                    => out' = out
      ]_vars

\* A query has returned two records from two blocks, which also hold a
\* record of the other type, while a record of the queried type is pending.
C18_Witness ==
    /\ prog = "city" /\ op = "get_block_data_by_type"
    /\ Len(chain) >= 3 /\ Len(out) = 2
    /\ Len(chain[3].data.transactions) = 2
    /\ out[1] = chain[2].data.transactions[1]
    /\ out[2] = chain[3].data.transactions[2]
    /\ chain[3].data.transactions[1].type # out[1].type
    /\ \E j \in 1..Len(pending_data) : pending_data[j].type = out[1].type

\* C19: an overwrite of a field of the genesis block other than its stored
\* digest leaves the result of validation (the boolean, where it stops and
\* what it reports) as it was, whatever else was overwritten before; a chain
\* of the genesis block alone validates, whatever its fields hold, and a
\* validation call on it returns true.
C19_GenesisTrusted ==
    [][ /\ ( /\ prog = "city" /\ op' = "overwrite"
             /\ chain'[1] # chain[1] /\ chain'[1].hash = chain[1].hash )
           => is_chain_valid(chain') = is_chain_valid(chain)
        /\ ( /\ prog = "secure" /\ op' = "overwrite"
             /\ blocks'[1] # blocks[1] /\ blocks'[1].current_hash = blocks[1].current_hash )
           => validate_integrity(blocks') = validate_integrity(blocks)
        /\ Len(chain') = 1 => is_chain_valid(chain').ok
        /\ Len(blocks') = 1 => validate_integrity(blocks').ok
        /\ (Validated' /\ Len(TheChain') = 1) => out'.ok
      ]_vars

\* Validation has returned true on a SmartCityBlockchain of two blocks or
\* more whose genesis block no longer has the content it was constructed
\* with, its stored digest being the constructed one.
C19_Witness ==
    /\ prog = "city" /\ op = "is_chain_valid" /\ out.ok
    /\ Len(chain) >= 2
    /\ chain[1] # appended[1]
    /\ chain[1].hash = appended[1].hash

\* C20: when a direct call of mine_block on a mined block of the chain
\* (position 1 or later) has returned, that block has the nonce and the
\* stored digest it was appended with, and the chain validates as long as
\* the genesis block, which was never mined, was not the target of such a
\* call; a validation call made afterwards returns true.
C20_RemineIdempotent ==
    (prog = "secure" /\ pc = "idle" /\ target_block >= 1) =>
        /\ op = "mine_block" =>
              /\ blocks[target_block + 1].nonce = appended[target_block + 1].nonce
              /\ blocks[target_block + 1].current_hash
                    = appended[target_block + 1].current_hash
              /\ blocks[target_block + 1] = appended[target_block + 1]
              /\ blocks[1] = appended[1] => validate_integrity(blocks).ok
        /\ (op = "validate_integrity" /\ blocks[1] = appended[1]) => out.ok

\* A direct call of mine_block on the middle block of a SecureChain of
\* three blocks, mined at a nonce above 0, has returned.
C20_Witness ==
    /\ prog = "secure" /\ pc = "idle" /\ op = "mine_block"
    /\ Len(blocks) = 3 /\ target_block = 1
    /\ blocks[2].nonce > 0
    /\ blocks[1] = appended[1]
====
